---- MODULE Spec2Model ----
(***************************************************************************)
(* Model of the upload pipeline of internal/file/file.go: UploadFile,      *)
(* getFileBlocks, uploadBlock and createFile.  One run of UploadFile is    *)
(* one behaviour: pc is the position of the call, the remote service and   *)
(* the file system are the environment, and their answers (stat result,    *)
(* read errors, HTTP responses) are chosen nondeterministically.  A seek   *)
(* may fail and a read may return fewer bytes than asked for, at most      *)
(* MaxFaults times in a call; a read error may happen at every read.       *)
(*                                                                         *)
(* Sizes are byte counts.  Go's int is taken to be 64 bits wide, so none   *)
(* of the int/int64 conversions of the code truncates.  TLC's integers are *)
(* 32 bits wide, so the ceiling 4*1024*1024*1024 (= 1024 * ChunkSize) is   *)
(* represented by CeilingChunks * ChunkSize with a small CeilingChunks.    *)
(***************************************************************************)
EXTENDS Integers, Sequences, FiniteSets, TLC

VARIABLES
    pc,          \* position of the UploadFile call
    fileSize,    \* fileInfo.Size() as returned by os.Stat (line 55)
    blockInfos,  \* *blockInfos: the block list of the manifest
    i,           \* loop counter of getFileBlocks (line 189)
    b,           \* len(b): length of the read buffer of getFileBlocks
    readFailed,  \* indexes of the blocks whose file.Read failed in getFileBlocks
    negoReq,     \* the uploadJson posted to CreateFile (lines 89-109)
    resp,        \* the parsed negotiation response (*resp)
    k,           \* index of the range loop over blockMetas (line 148)
    commitMetas, \* commitMetas (line 147)
    commitReq,   \* the data handed to createFile and sent by it
    commitResp,  \* the answer to the commit request, as createFile reads it
    handles,     \* file handles that are open
    cursor,      \* read cursor of the file handle in use
    faults,      \* failed seeks and short reads so far
    log,         \* requests, responses and digests of this call, in order
    result       \* what UploadFile returned

vars == <<pc, fileSize, blockInfos, i, b, readFailed, negoReq, resp, k,
          commitMetas, commitReq, commitResp, handles, cursor, faults, log,
          result>>

-----------------------------------------------------------------------------
(* Program constants and bounds *)

ChunkSize == 4194304

\* The size ceiling of line 63 is 1024 chunks; the model uses CeilingChunks.
CeilingChunks == 3
SizeCeiling == CeilingChunks * ChunkSize

\* Longest block_metas array the service answers with.
MaxMetas == 3

\* Most seeks that fail and reads that come back short in one call.
MaxFaults == 1

\* File sizes os.Stat may report: around every multiple of ChunkSize up to
\* the ceiling, and the smallest sizes.
Sizes ==
    {0, 1} \cup
    { n * ChunkSize + d : n \in 1..CeilingChunks, d \in {-1, 0, 1} }

fileName == "a.bin"
Descriptions == {"quota exceeded", "bad request"}
FileIds == {"id-1", "id-2"}

-----------------------------------------------------------------------------
(* Values *)

RECURSIVE SumSizes(_)
SumSizes(s) == IF s = <<>> THEN 0 ELSE Head(s).Size + SumSizes(Tail(s))

NoResult == [status |-> "none", id |-> "", err |-> "", desc |-> ""]
Ok(id) == [status |-> "ok", id |-> id, err |-> "", desc |-> ""]
Err(e, d) == [status |-> "error", id |-> "", err |-> e, desc |-> d]

SizeTooBigError == "SizeTooBigError"

\* An entry of log: a digest computation, a request or what came back.
Event(e, n, info, offset, len) ==
    [ev |-> e, idx |-> n, info |-> info, offset |-> offset, len |-> len]

\* A digest stands for the byte range it was computed over.
Digest(alg, offset, len) == [alg |-> alg, offset |-> offset, len |-> len]

\* The digest of a read buffer of buflen bytes whose first n bytes were read
\* at file position pos; the other buflen - n bytes are what the buffer held
\* before the read.
BufferDigest(alg, pos, n, buflen) ==
    [alg |-> alg, offset |-> pos, len |-> n, stale |-> buflen - n]

\* Tokens are opaque strings in the code; the model keeps where each came from.
Token(src, n) == [src |-> src, idx |-> n]
NoToken == Token("", 0)

fileSha1 == Digest("sha1", 0, fileSize)

NoReq == [sent |-> FALSE]

-----------------------------------------------------------------------------
(* The negotiation response, as gjson reads it *)

\* Entry j (0-based) of data.storage.kss.block_metas.
BlockMeta(j, existed) ==
    [is_existed  |-> existed,
     commit_meta |-> IF existed = 1 THEN Token("service", j) ELSE NoToken,
     block_meta  |-> IF existed = 1 THEN NoToken ELSE Token("block_meta", j)]

MetaSeqs ==
    UNION { { [j \in 1..n |-> BlockMeta(j - 1, f[j])] : f \in [1..n -> {0, 1}] }
            : n \in 0..MaxMetas }

NodeUrlLists == { <<>>, <<"">>, <<"https://node-1">> }

Response(res, desc, exists, nodes, metas) ==
    [received    |-> TRUE,
     result      |-> res,
     description |-> desc,
     exists      |-> exists,
     uploadId    |-> IF res = "ok" THEN "upload-1" ELSE "",
     node_urls   |-> nodes,
     file_meta   |-> IF res = "ok" /\ ~exists THEN "file-meta-1" ELSE "",
     block_metas |-> metas]

NoResp == [Response("", "", FALSE, <<>>, <<>>) EXCEPT !.received = FALSE]

Responses ==
    { Response(res, d, FALSE, <<>>, <<>>) : res \in {"error", ""},
                                             d \in Descriptions }
    \cup { Response("ok", "", TRUE, <<>>, <<>>) }
    \cup { Response("ok", "", FALSE, n, m) : n \in NodeUrlLists, m \in MetaSeqs }

\* The answer to the commit request, as createFile reads it (lines 278-281).
CommitResponse(res, id, desc) ==
    [received |-> TRUE, result |-> res, id |-> id, description |-> desc]

NoCommitResp == [CommitResponse("", "", "") EXCEPT !.received = FALSE]

CommitResponses ==
    { CommitResponse("ok", id, "") : id \in FileIds }
    \cup { CommitResponse(res, "", d) : res \in {"error", ""},
                                        d \in Descriptions }

-----------------------------------------------------------------------------
(* Decisions of the code *)

\* A ceiling that lets a file of exactly the ceiling through.
SizeRejected_OffByOne(s) == s = 0 \/ s > SizeCeiling

\* line 63
SizeRejected(s) == s = 0 \/ s >= SizeCeiling

\* line 73
NeedsChunking(s) == s > ChunkSize

\* A block count that rounds down.
NumBlocks_Floor(s) == s \div ChunkSize

\* line 184: int(math.Ceil(float64(size) / float64(ChunkSize)))
NumBlocks(s) == (s + ChunkSize - 1) \div ChunkSize

\* lines 194-196: the buffer is shortened, never lengthened
BufferLen(len, s, offset) == IF len > s - offset THEN s - offset ELSE len

\* A check that knows one failure marker only.
NegotiationFailed_OnlyError(r) == r.result = "error"

\* file.Seek(offset, 0), lines 193 and 230: where the cursor is afterwards.
\* Both callers drop the error of a seek that fails.
SeekOutcomes == {TRUE} \cup (IF faults < MaxFaults THEN {FALSE} ELSE {})
Seek(ok, offset) == IF ok THEN offset ELSE cursor

\* file.Read(buf), lines 197 and 231, with a nil error: how many bytes come
\* back for a buffer of len bytes with the cursor at pos.  Nothing is read
\* into an empty buffer; at or past the end of the file the read fails.
FullRead(pos, len) ==
    IF len < fileSize - pos THEN len ELSE fileSize - pos
ShortReads(pos, len) ==
    IF faults < MaxFaults
      THEN { n \in {FullRead(pos, len) - 1} : 0 < n }
      ELSE {}
ReadCounts(pos, len) ==
    IF len = 0 THEN {0}
    ELSE IF FullRead(pos, len) <= 0 THEN {}
    ELSE {FullRead(pos, len)} \cup ShortReads(pos, len)

Fault(cond) == IF cond THEN 1 ELSE 0

\* line 113
NegotiationFailed(r) == r.result # "ok"

\* line 117
IsExisted(r) == r.exists

\* line 219
BlockIsExisted(m) == m.is_existed = 1

\* The wrong field of the entry.
ExistedCommitMeta_BlockMeta(m) == [commit_meta |-> m.block_meta]

\* line 220
ExistedCommitMeta(m) == [commit_meta |-> m.commit_meta]

\* line 250
NodeCommitMeta(token) == [commit_meta |-> token]

\* lines 224-228
BlockOffset(num) == num * ChunkSize
BlockChunkSize(num, s) ==
    IF ChunkSize > s - BlockOffset(num) THEN s - BlockOffset(num) ELSE ChunkSize

\* A status check that takes every answered request as completed.
BlockCompleted_AnyStatus(stat) == TRUE

\* line 246
BlockCompleted(stat) == stat = "BLOCK_COMPLETED"

\* A loop that does not advance.
NextIndex_Stay(n) == n

\* line 154 and the range loop of line 148
NextIndex(n) == n + 1

\* A commit of an existing file that carries the full storage record.
ExistedData_WithKss(r) ==
    [sent |-> TRUE,
     Name |-> fileName,
     Storage |-> [UploadId |-> r.uploadId,
                  Exists   |-> TRUE,
                  Kss      |-> [CommitMetas |-> commitMetas]]]

\* A check that knows one failure marker only.
CommitOk_NotError(r) == r.result # "error"

\* line 278
CommitOk(r) == r.result = "ok"

\* lines 120-126
ExistedData(r) ==
    [sent |-> TRUE,
     Name |-> fileName,
     Storage |-> [UploadId |-> r.uploadId, Exists |-> TRUE]]

\* A commit that takes the file meta from another field of the response.
FullData_OtherMeta(r, metas) ==
    [sent |-> TRUE,
     Name |-> fileName,
     Storage |-> [Size |-> fileSize,
                  Sha1 |-> fileSha1,
                  Kss  |-> [Stat        |-> "OK",
                            NodeUrls    |-> r.node_urls,
                            FileMeta    |-> r.uploadId,
                            CommitMetas |-> metas],
                  UploadId |-> r.uploadId,
                  Exists   |-> FALSE]]

\* lines 160-176
FullData(r, metas) ==
    [sent |-> TRUE,
     Name |-> fileName,
     Storage |-> [Size |-> fileSize,
                  Sha1 |-> fileSha1,
                  Kss  |-> [Stat        |-> "OK",
                            NodeUrls    |-> r.node_urls,
                            FileMeta    |-> r.file_meta,
                            CommitMetas |-> metas],
                  UploadId |-> r.uploadId,
                  Exists   |-> FALSE]]

-----------------------------------------------------------------------------
(* Initial state: UploadFile has been called and has done nothing yet *)

Init ==
    /\ pc = "Stat"
    /\ fileSize = 0
    /\ blockInfos = <<>>
    /\ i = 0
    /\ b = 0
    /\ readFailed = {}
    /\ negoReq = NoReq
    /\ resp = NoResp
    /\ k = 0
    /\ commitMetas = <<>>
    /\ commitReq = NoReq
    /\ commitResp = NoCommitResp
    /\ handles = {}
    /\ cursor = 0
    /\ faults = 0
    /\ log = <<>>
    /\ result = NoResult

Return(r) ==
    /\ result' = r
    /\ pc' = "Done"

-----------------------------------------------------------------------------
(* UploadFile, lines 55-65: os.Stat and the size check *)

UploadFile_Stat ==
    /\ pc = "Stat"
    /\ \/ /\ Return(Err("stat failed", ""))
          /\ UNCHANGED fileSize
       \/ \E s \in Sizes :
             /\ fileSize' = s
             /\ IF SizeRejected(s)
                  THEN Return(Err(SizeTooBigError, ""))
                  ELSE pc' = "Sha1" /\ UNCHANGED result
    /\ UNCHANGED <<cursor, faults, blockInfos, i, b, readFailed, negoReq, resp,
                   k, commitMetas, commitReq, commitResp, handles, log>>

(* UploadFile, lines 66-68: the whole-file SHA-1 *)
UploadFile_FileSha1 ==
    /\ pc = "Sha1"
    /\ log' = Append(log, Event("sha1", 0, "file", 0, fileSize))
    /\ pc' = "Chunk"
    /\ UNCHANGED <<cursor, faults, fileSize, blockInfos, i, b, readFailed,
                   negoReq, resp, k, commitMetas, commitReq, commitResp,
                   handles, result>>

(* UploadFile, lines 73 and 78-88: a file of at most ChunkSize is one block *)
UploadFile_SingleBlock ==
    /\ pc = "Chunk"
    /\ ~NeedsChunking(fileSize)
    /\ blockInfos' = << [Size |-> fileSize,
                         Sha1 |-> fileSha1,
                         Md5  |-> Digest("md5", 0, fileSize)] >>
    /\ log' = Append(log, Event("md5", 0, "file", 0, fileSize))
    /\ pc' = "Post"
    /\ UNCHANGED <<cursor, faults, fileSize, i, b, readFailed, negoReq, resp,
                   k, commitMetas, commitReq, commitResp, handles, result>>

(* getFileBlocks, lines 184-190, called from line 74; lines 75-77 on error *)
getFileBlocks_Open ==
    /\ pc = "Chunk"
    /\ NeedsChunking(fileSize)
    /\ \/ /\ Return(Err("get file blocks failed", ""))
          /\ UNCHANGED <<i, b, handles, cursor>>
       \/ /\ handles' = handles \cup {"getFileBlocks"}
          /\ cursor' = 0
          /\ i' = 1
          /\ b' = ChunkSize
          /\ pc' = "Blocks"
          /\ UNCHANGED result
    /\ UNCHANGED <<faults, fileSize, blockInfos, readFailed, negoReq, resp, k,
                   commitMetas, commitReq, commitResp, log>>

(* getFileBlocks, lines 191-208: one iteration of the loop.  The error of  *)
(* the seek is dropped, the count of the read is dropped, and the whole    *)
(* buffer is hashed.  A failed read takes the continue of line 199: the    *)
(* block is left out, the loop goes on.                                    *)
getFileBlocks_Loop ==
    /\ pc = "Blocks"
    /\ i <= NumBlocks(fileSize)
    /\ LET offset == (i - 1) * ChunkSize
           len    == BufferLen(b, fileSize, offset)
       IN  /\ b' = len
           /\ \E seekOk \in SeekOutcomes :
                 LET pos == Seek(seekOk, offset)
                 IN  \/ /\ readFailed' = readFailed \cup {i - 1}
                        /\ log' = Append(log, Event("chunkRead", i - 1, "error",
                                                    pos, 0))
                        /\ cursor' = pos
                        /\ faults' = faults + Fault(~seekOk)
                        /\ UNCHANGED blockInfos
                     \/ \E n \in ReadCounts(pos, len) :
                           /\ faults + Fault(~seekOk)
                                 + Fault(n < FullRead(pos, len)) <= MaxFaults
                           /\ faults' = faults + Fault(~seekOk)
                                          + Fault(n < FullRead(pos, len))
                           /\ cursor' = pos + n
                           /\ blockInfos' =
                                 Append(blockInfos,
                                        [Size |-> len,
                                         Sha1 |-> BufferDigest("sha1", pos, n, len),
                                         Md5  |-> BufferDigest("md5", pos, n, len)])
                           /\ log' = log \o
                                 << Event("chunkRead", i - 1, "ok", pos, n),
                                    Event("hash", i - 1, "block", offset, len) >>
                           /\ UNCHANGED readFailed
    /\ i' = i + 1
    /\ UNCHANGED <<pc, fileSize, negoReq, resp, k, commitMetas, commitReq,
                   commitResp, handles, result>>

(* getFileBlocks, line 209: the loop is over, the list is returned with a *)
(* nil error; the file opened at line 185 is not closed.                   *)
getFileBlocks_Return ==
    /\ pc = "Blocks"
    /\ i > NumBlocks(fileSize)
    /\ pc' = "Post"
    /\ UNCHANGED <<cursor, faults, fileSize, blockInfos, i, b, readFailed,
                   negoReq, resp, k, commitMetas, commitReq, commitResp,
                   handles, log, result>>

(* UploadFile, lines 89-109: the manifest is posted to CreateFile *)
UploadFile_PostForm ==
    /\ pc = "Post"
    /\ negoReq' = [sent |-> TRUE,
                   Name |-> fileName,
                   Size |-> fileSize,
                   Sha1 |-> fileSha1,
                   BlockInfos |-> blockInfos]
    /\ log' = Append(log, Event("negoReq", 0, "", 0, 0))
    /\ pc' = "NegoWait"
    /\ UNCHANGED <<cursor, faults, fileSize, blockInfos, i, b, readFailed,
                   resp, k, commitMetas, commitReq, commitResp, handles,
                   result>>

(* UploadFile, lines 110-147: postForm comes back; the response is read    *)
(* and, when blocks are needed, the node is picked and the file is opened. *)
(* nodeUrls[0] of an empty array is an index out of range: the call panics. *)
Negotiated(r) ==
    /\ resp' = r
    /\ log' = Append(log, Event("negoResp", 0, r.result, 0, 0))
    /\ IF NegotiationFailed(r)
         THEN /\ Return(Err("create file block failed, error: ", r.description))
              /\ UNCHANGED <<k, commitMetas, handles, cursor>>
       ELSE IF IsExisted(r)
         THEN /\ pc' = "Commit"
              /\ UNCHANGED <<k, commitMetas, handles, cursor, result>>
       ELSE IF Len(r.node_urls) = 0
         THEN /\ pc' = "Crashed"
              /\ UNCHANGED <<k, commitMetas, handles, cursor, result>>
       ELSE IF r.node_urls[1] = ""
         THEN /\ Return(Err("no available url node", ""))
              /\ UNCHANGED <<k, commitMetas, handles, cursor>>
       ELSE \/ /\ Return(Err("open failed", ""))
               /\ UNCHANGED <<k, commitMetas, handles, cursor>>
            \/ /\ handles' = handles \cup {"UploadFile"}
               /\ cursor' = 0
               /\ k' = 0
               /\ commitMetas' = <<>>
               /\ pc' = "Upload"
               /\ UNCHANGED result

UploadFile_Negotiated ==
    /\ pc = "NegoWait"
    /\ \/ /\ Return(Err("transport error", ""))
          /\ log' = Append(log, Event("negoErr", 0, "transport error", 0, 0))
          /\ UNCHANGED <<resp, k, commitMetas, handles, cursor>>
       \/ \E r \in Responses : Negotiated(r)
    /\ UNCHANGED <<faults, fileSize, blockInfos, i, b, readFailed, negoReq,
                   commitReq, commitResp>>

(* uploadBlock, lines 214-220, and lines 149-156 of the loop: a block the *)
(* service has already is not sent, its commit_meta is taken as it is.     *)
uploadBlock_Existed ==
    /\ pc = "Upload"
    /\ k < Len(resp.block_metas)
    /\ LET m == resp.block_metas[k + 1]
       IN  /\ BlockIsExisted(m)
           /\ commitMetas' = Append(commitMetas, ExistedCommitMeta(m))
    /\ k' = NextIndex(k)
    /\ UNCHANGED <<cursor, faults, pc, fileSize, blockInfos, i, b, readFailed,
                   negoReq, resp, commitReq, commitResp, handles, log, result>>

(* uploadBlock, lines 222-240: the range of block num is read and posted. *)
(* When file.Stat fails fileInfo is nil and fileInfo.Size() panics;        *)
(* make([]byte, chunkSize) with a negative chunkSize panics.  The error of *)
(* the seek is overwritten by that of the read, the count of the read is   *)
(* dropped, and the whole buffer is the body of the request.               *)
uploadBlock_Send ==
    /\ pc = "Upload"
    /\ k < Len(resp.block_metas)
    /\ ~BlockIsExisted(resp.block_metas[k + 1])
    /\ LET offset    == BlockOffset(k)
           chunkSize == BlockChunkSize(k, fileSize)
       IN  IF chunkSize < 0
             THEN /\ pc' = "Crashed"
                  /\ UNCHANGED <<log, result, cursor, faults>>
             ELSE \/ /\ pc' = "Crashed"
                     /\ UNCHANGED <<log, result, cursor, faults>>
                  \/ \E seekOk \in SeekOutcomes :
                        LET pos == Seek(seekOk, offset)
                        IN  \/ /\ chunkSize > 0
                               /\ Return(Err("read failed", ""))
                               /\ cursor' = pos
                               /\ faults' = faults + Fault(~seekOk)
                               /\ log' = log \o
                                     << Event("blockRead", k, "error", pos, 0),
                                        Event("blockErr", k, "read error",
                                              offset, chunkSize) >>
                            \/ \E n \in ReadCounts(pos, chunkSize) :
                                  /\ faults + Fault(~seekOk)
                                        + Fault(n < FullRead(pos, chunkSize)
                                                /\ chunkSize > 0) <= MaxFaults
                                  /\ faults' = faults + Fault(~seekOk)
                                        + Fault(n < FullRead(pos, chunkSize)
                                                /\ chunkSize > 0)
                                  /\ cursor' = pos + n
                                  /\ log' = log \o
                                        << Event("blockRead", k, "ok", pos, n),
                                           Event("blockReq", k, resp.file_meta,
                                                 offset, chunkSize) >>
                                  /\ pc' = "BlockWait"
                                  /\ UNCHANGED result
    /\ UNCHANGED <<fileSize, blockInfos, i, b, readFailed, negoReq, resp, k,
                   commitMetas, commitReq, commitResp, handles>>

(* uploadBlock, lines 240-250, and lines 150-156 of the loop.  The body of *)
(* the response is closed at line 249 only, after the return of line 247.  *)
BlockStats == {"BLOCK_COMPLETED", "BLOCK_RETRY", ""}

BlockAnswered(stat) ==
    /\ log' = Append(log, Event("blockResp", k, stat, 0, 0))
    /\ IF BlockCompleted(stat)
         THEN /\ commitMetas' = Append(commitMetas, NodeCommitMeta(Token("node", k)))
              /\ k' = NextIndex(k)
              /\ pc' = "Upload"
              /\ UNCHANGED <<result, handles>>
         ELSE /\ Return(Err("block not completed", ""))
              /\ handles' = handles \cup {"response.Body"}
              /\ UNCHANGED <<k, commitMetas>>

uploadBlock_Response ==
    /\ pc = "BlockWait"
    /\ \/ /\ Return(Err("transport error", ""))
          /\ log' = Append(log, Event("blockErr", k, "transport error", 0, 0))
          /\ UNCHANGED <<k, commitMetas, handles>>
       \/ \E stat \in BlockStats : BlockAnswered(stat)
    /\ UNCHANGED <<cursor, faults, fileSize, blockInfos, i, b, readFailed,
                   negoReq, resp, commitReq, commitResp>>

(* createFile, lines 255-269, called from line 128 with the data of lines *)
(* 120-126 or from line 178, after the loop, with the data of 160-176.     *)
CommitData ==
    IF IsExisted(resp) THEN ExistedData(resp) ELSE FullData(resp, commitMetas)

createFile_Do ==
    /\ \/ pc = "Commit"
       \/ pc = "Upload" /\ k >= Len(resp.block_metas)
    /\ commitReq' = CommitData
    /\ log' = Append(log, Event("commitReq", 0, "", 0, 0))
    /\ pc' = "CommitWait"
    /\ UNCHANGED <<cursor, faults, fileSize, blockInfos, i, b, readFailed,
                   negoReq, resp, k, commitMetas, commitResp, handles, result>>

(* createFile, lines 269-283, and the return of lines 128 and 178 *)
CommitAnswered(r) ==
    /\ commitResp' = r
    /\ log' = Append(log, Event("commitResp", 0, r.result, 0, 0))
    /\ IF CommitOk(r)
         THEN Return(Ok(r.id))
         ELSE Return(Err("", r.description))

\* A createFile that sends the commit again when the service refuses it.
createFile_Response_Retry ==
    /\ pc = "CommitWait"
    /\ \E r \in CommitResponses :
          /\ commitResp' = r
          /\ log' = Append(log, Event("commitResp", 0, r.result, 0, 0))
          /\ IF CommitOk(r)
               THEN Return(Ok(r.id))
               ELSE pc' = "Commit" /\ UNCHANGED result
    /\ UNCHANGED <<cursor, faults, fileSize, blockInfos, i, b, readFailed,
                   negoReq, resp, k, commitMetas, commitReq, handles>>

createFile_Response ==
    /\ pc = "CommitWait"
    /\ \/ /\ Return(Err("transport error", ""))
          /\ log' = Append(log, Event("commitErr", 0, "transport error", 0, 0))
          /\ UNCHANGED commitResp
       \/ /\ Return(Err("read failed", ""))
          /\ log' = Append(log, Event("commitErr", 0, "read error", 0, 0))
          /\ UNCHANGED commitResp
       \/ \E r \in CommitResponses : CommitAnswered(r)
    /\ UNCHANGED <<cursor, faults, fileSize, blockInfos, i, b, readFailed,
                   negoReq, resp, k, commitMetas, commitReq, handles>>

-----------------------------------------------------------------------------

Next ==
    \/ UploadFile_Stat
    \/ UploadFile_FileSha1
    \/ UploadFile_SingleBlock
    \/ getFileBlocks_Open
    \/ getFileBlocks_Loop
    \/ getFileBlocks_Return
    \/ UploadFile_PostForm
    \/ UploadFile_Negotiated
    \/ uploadBlock_Existed
    \/ uploadBlock_Send
    \/ uploadBlock_Response
    \/ createFile_Do
    \/ createFile_Response

Spec == Init /\ [][Next]_vars

-----------------------------------------------------------------------------
(* Reading the log *)

Events(e) == { n \in 1..Len(log) : log[n].ev = e }
Count(e) == Cardinality(Events(e))
Terminated == pc \in {"Done", "Crashed"}

TypeOK ==
    /\ pc \in {"Stat", "Sha1", "Chunk", "Blocks", "Post", "NegoWait", "Upload",
               "BlockWait", "Commit", "CommitWait", "Done", "Crashed"}
    /\ fileSize \in Sizes
    /\ k \in 0..MaxMetas
    /\ Len(commitMetas) <= MaxMetas
    /\ cursor \in 0..SizeCeiling
    /\ faults \in 0..MaxFaults
    /\ handles \subseteq {"getFileBlocks", "UploadFile", "response.Body"}

-----------------------------------------------------------------------------
(* Properties *)

BlocksNeeded == resp.received /\ resp.result = "ok" /\ ~resp.exists
FileExists == resp.received /\ resp.result = "ok" /\ resp.exists

\* A block transfer that failed: a read or transport error, or an answer
\* whose stat is not "BLOCK_COMPLETED".
IsBlockFailure(e) ==
    \/ e.ev = "blockErr"
    \/ e.ev = "blockResp" /\ e.info # "BLOCK_COMPLETED"

\* C1: when the transfer of block k fails (read error, transport error or a
\* stat other than "BLOCK_COMPLETED"), UploadFile has returned an error, no
\* transfer request for a block above k was or is issued, nothing at all
\* follows the failure, and no commit request is sent.
C1_BlockFailureAborts ==
    \A n \in 1..Len(log) :
        IsBlockFailure(log[n]) =>
            /\ pc = "Done"
            /\ result.status = "error"
            /\ \A m \in 1..Len(log) :
                  log[m].ev = "blockReq" => log[m].idx <= log[n].idx
            /\ n = Len(log)
            /\ Count("commitReq") = 0
            /\ commitReq = NoReq

\* A failed transfer of a block that is not the last entry of block_metas.
C1_Witness ==
    /\ pc = "Done"
    /\ \E n \in 1..Len(log) :
          /\ log[n].ev = "blockResp"
          /\ log[n].info = "BLOCK_RETRY"
          /\ log[n].idx + 1 < Len(resp.block_metas)

\* C2: when the negotiation answers "ok" and that the file exists, no block
\* transfer request is ever sent, and the call goes on to send one commit
\* request, no more, whose storage is the uploadId with exists = true and
\* nothing else (no commit tokens).
C2_ExistingFileCommit ==
    FileExists =>
        /\ Count("blockReq") = 0
        /\ pc \in {"Commit", "CommitWait", "Done"}
        /\ pc = "Commit" => Count("commitReq") = 0
        /\ pc \in {"CommitWait", "Done"} =>
              /\ Count("commitReq") = 1
              /\ commitReq.sent
              /\ commitReq.Storage = [UploadId |-> resp.uploadId, Exists |-> TRUE]

C2_Witness ==
    /\ FileExists
    /\ pc = "Done"
    /\ result.status = "ok"
    /\ Count("commitReq") = 1

\* C3: a file of size 0 or of size >= the ceiling is rejected with
\* SizeTooBigError before any digest, chunking or request; every size
\* strictly between passes the check and goes on to the digest.
C3_SizeCheck ==
    (pc # "Stat" /\ result.err # "stat failed") =>
        /\ (fileSize = 0 \/ fileSize >= SizeCeiling) =>
              /\ pc = "Done"
              /\ result = Err(SizeTooBigError, "")
              /\ log = <<>>
              /\ blockInfos = <<>>
              /\ handles = {}
              /\ negoReq = NoReq
              /\ commitReq = NoReq
        /\ (0 < fileSize /\ fileSize < SizeCeiling) =>
              /\ result.err # SizeTooBigError
              /\ pc = "Sha1" \/ Count("sha1") = 1

\* A file of exactly the ceiling has been rejected.
C3_Witness ==
    /\ pc = "Done"
    /\ fileSize = SizeCeiling
    /\ result.err = SizeTooBigError

\* C4 (as claimed): when the read of a block fails in getFileBlocks, the
\* chunking fails, so no negotiation request is sent for a manifest that
\* leaves the block out.
C4_ReadFailureFailsChunking ==
    readFailed # {} =>
        /\ Count("negoReq") = 0
        /\ negoReq = NoReq
        /\ pc = "Done" => result.status = "error"

\* C5: a manifest built with every read succeeding has ceil(s/ChunkSize)
\* blocks whose sizes sum to s, all but the last of size ChunkSize; a file of
\* at most ChunkSize is one block built without getFileBlocks, a file of
\* ChunkSize + 1 is two blocks.
ManifestBuilt == pc = "Post" \/ negoReq.sent

C5_Chunking ==
    (ManifestBuilt /\ readFailed = {}) =>
        LET n == Len(blockInfos)
        IN  /\ 0 < fileSize /\ fileSize < SizeCeiling
            /\ (n - 1) * ChunkSize < fileSize
            /\ fileSize <= n * ChunkSize
            /\ SumSizes(blockInfos) = fileSize
            /\ \A j \in 1..(n - 1) : blockInfos[j].Size = ChunkSize
            /\ blockInfos[n].Size = fileSize - (n - 1) * ChunkSize
            /\ fileSize <= ChunkSize =>
                  n = 1 /\ i = 0 /\ "getFileBlocks" \notin handles
            /\ fileSize > ChunkSize => "getFileBlocks" \in handles
            /\ fileSize = ChunkSize + 1 => n = 2
            /\ negoReq.sent => negoReq.BlockInfos = blockInfos

C5_Witness ==
    /\ negoReq.sent
    /\ readFailed = {}
    /\ fileSize = 2 * ChunkSize + 1
    /\ Len(negoReq.BlockInfos) = 3
    /\ negoReq.BlockInfos[3].Size = 1

\* C6: when the result of the negotiation response is not "ok", UploadFile
\* returns an error that carries the description of the response; no file is
\* opened for transfer, no block request and no commit request is sent.
C6_NegotiationFailure ==
    (resp.received /\ resp.result # "ok") =>
        /\ pc = "Done"
        /\ result.status = "error"
        /\ result.err = "create file block failed, error: "
        /\ result.desc = resp.description
        /\ Count("blockReq") = 0
        /\ Count("commitReq") = 0
        /\ commitReq = NoReq
        /\ "UploadFile" \notin handles

C6_Witness ==
    /\ resp.received
    /\ resp.result = ""
    /\ result.desc = "quota exceeded"

\* C7 (as claimed): when the response is "ok", the file does not exist and
\* node_urls is empty or absent, UploadFile returns the no-available-node
\* error, opens no transfer, sends no commit and does not crash.
C7_NoNodeIsAnError ==
    (BlocksNeeded /\ resp.node_urls = <<>>) =>
        /\ pc = "Done"
        /\ result = Err("no available url node", "")
        /\ "UploadFile" \notin handles
        /\ Count("commitReq") = 0

\* C8: on the blocks-needed path an entry with is_existed = 1 causes no
\* transfer request, and the commit token stored at its index is the
\* commit_meta of that entry; when every entry is so flagged no transfer
\* request is sent at all and the commit carries the commit_meta of every
\* entry, in the order of the entries.
C8_ExistingBlocksReused ==
    BlocksNeeded =>
        /\ \A j \in 1..Len(commitMetas) :
              resp.block_metas[j].is_existed = 1 =>
                  /\ commitMetas[j] =
                        [commit_meta |-> resp.block_metas[j].commit_meta]
                  /\ \A n \in Events("blockReq") : log[n].idx # j - 1
        /\ (\A j \in 1..Len(resp.block_metas) :
               resp.block_metas[j].is_existed = 1) =>
              /\ Count("blockReq") = 0
              /\ commitReq.sent =>
                    commitReq.Storage.Kss.CommitMetas =
                        [j \in 1..Len(resp.block_metas) |->
                            [commit_meta |-> resp.block_metas[j].commit_meta]]

C8_Witness ==
    /\ BlocksNeeded
    /\ commitReq.sent
    /\ Len(resp.block_metas) = MaxMetas
    /\ \A j \in 1..Len(resp.block_metas) : resp.block_metas[j].is_existed = 1
    /\ Len(commitReq.Storage.Kss.CommitMetas) = MaxMetas

\* C9: within one call every digest is computed, and the chunking loop is
\* over, before the negotiation request is sent; the negotiation response
\* is received before any block request; block requests go out in strictly
\* ascending index, each only after the answer to the one before it.
DigestEvents == Events("sha1") \cup Events("md5") \cup Events("hash")

C9_StrictOrder ==
    /\ \A n \in Events("negoReq") :
          /\ \A d \in DigestEvents : d < n
          /\ Count("sha1") = 1
          /\ IF fileSize > ChunkSize
               THEN /\ i * ChunkSize >= fileSize + ChunkSize
                    /\ \A j \in 0..(i - 2) :
                          \/ j \in readFailed
                          \/ \E d \in Events("hash") : log[d].idx = j
               ELSE Count("md5") = 1
    /\ \A n \in Events("blockReq") :
          /\ \E m \in Events("negoResp") : m < n
          /\ \A m \in Events("blockReq") :
                n < m =>
                   /\ log[n].idx < log[m].idx
                   /\ \E p \in Events("blockResp") :
                         n < p /\ p < m /\ log[p].idx = log[n].idx
    /\ Count("negoReq") <= 1
    /\ Count("negoResp") <= 1

C9_Witness ==
    /\ pc = "Done"
    /\ result.status = "ok"
    /\ fileSize > 2 * ChunkSize
    /\ Count("hash") = 3
    /\ Count("blockReq") >= 2

\* C10 (as claimed): whenever the commit request of the blocks-needed path
\* is sent, its commit-token list has one token for each block of the
\* manifest sent in the negotiation request, in the order of the blocks.
C10_OneTokenPerBlock ==
    (BlocksNeeded /\ commitReq.sent) =>
        Len(commitReq.Storage.Kss.CommitMetas) = Len(negoReq.BlockInfos)

\* C11: the commit request is sent at most once; once it is sent no
\* negotiation request and no block request follows it; a call that
\* returned success has sent it exactly once.
C11_CommitOnceAndLast ==
    /\ Count("commitReq") <= 1
    /\ \A n \in Events("commitReq") :
          \A m \in (n + 1)..Len(log) :
             log[m].ev \notin {"negoReq", "blockReq", "commitReq"}
    /\ (pc = "Done" /\ result.status = "ok") => Count("commitReq") = 1
    /\ commitReq.sent <=> Count("commitReq") = 1

\* A commit the service refused, after two blocks were transferred.
C11_Witness ==
    /\ pc = "Done"
    /\ Count("blockReq") >= 2
    /\ Count("commitReq") = 1
    /\ commitResp.received
    /\ commitResp.result = "error"

\* C12: UploadFile returns success exactly when the commit response was
\* read and its result is "ok", and then it returns the id of that response;
\* with any other result, and when the commit request fails in transport,
\* it returns an error, which carries the description of the response.
CommitFailedInTransport ==
    \E n \in Events("commitErr") : TRUE

C12_SuccessIffCommitOk ==
    pc = "Done" =>
        /\ result.status = "ok" <=> (commitResp.received /\ commitResp.result = "ok")
        /\ result.status = "ok" => result.id = commitResp.id
        /\ (commitResp.received /\ commitResp.result # "ok") =>
              /\ result.status = "error"
              /\ result.desc = commitResp.description
        /\ CommitFailedInTransport => result.status = "error"

C12_Witness ==
    /\ pc = "Done"
    /\ result = Ok("id-2")
    /\ commitResp.result = "ok"
    /\ BlocksNeeded

\* The events that produced the descriptors of the manifest, in the order of
\* the descriptors: each names the byte range its descriptor stands for.
IsDescriptorEvent(e) == e.ev \in {"hash", "md5"}
DescriptorEvents == SelectSeq(log, IsDescriptorEvent)

\* C13 (as claimed): every block transfer that is attempted reads and sends
\* a non-empty range inside the file, which is the range of the descriptor
\* of the same index in the manifest sent in the negotiation; the ranges of
\* the descriptors are contiguous, do not overlap and end at fileSize.
IsTransferAttempt(e) ==
    \/ e.ev = "blockReq"
    \/ e.ev = "blockErr" /\ e.info = "read error"

C13_TransferRangeIsDescriptorRange ==
    negoReq.sent =>
        LET d == DescriptorEvents
        IN  /\ Len(d) = Len(negoReq.BlockInfos)
            /\ Len(d) > 0
            /\ \A j \in 1..Len(d) :
                  /\ d[j].len > 0
                  /\ d[j].len = negoReq.BlockInfos[j].Size
                  /\ d[j].offset =
                        IF j = 1 THEN 0 ELSE d[j - 1].offset + d[j - 1].len
            /\ d[Len(d)].offset + d[Len(d)].len = fileSize
            /\ \A n \in 1..Len(log) :
                  IsTransferAttempt(log[n]) =>
                      /\ log[n].len > 0
                      /\ log[n].offset + log[n].len <= fileSize
                      /\ log[n].idx < Len(d)
                      /\ d[log[n].idx + 1].offset = log[n].offset
                      /\ d[log[n].idx + 1].len = log[n].len

\* C14 (as claimed): every descriptor getFileBlocks emits carries digests
\* of exactly the file bytes of its range: the bytes hashed were read at the
\* offset of the range, they are as many as the range is long, and no byte
\* the buffer held before the read is among them.
C14_DigestOfExactRange ==
    fileSize > ChunkSize =>
        \A j \in 1..Len(blockInfos) :
            LET e == DescriptorEvents[j]
            IN  /\ blockInfos[j].Sha1 =
                      BufferDigest("sha1", e.offset, e.len, e.len)
                /\ blockInfos[j].Md5 =
                      BufferDigest("md5", e.offset, e.len, e.len)

\* C15 (as claimed): every read of the file, in getFileBlocks and in
\* uploadBlock, is made with the cursor at the start offset of the block
\* that is read.
IsFileRead(e) == e.ev \in {"chunkRead", "blockRead"}

C15_ReadAtBlockOffset ==
    \A n \in 1..Len(log) :
        IsFileRead(log[n]) => log[n].offset = log[n].idx * ChunkSize

\* C16 (as claimed): a call that can take no further step has returned to
\* its caller, with a file identifier or with an error; it has not stopped
\* anywhere else.
C16_EndsInSuccessOrError ==
    (~ENABLED Next) =>
        /\ pc = "Done"
        /\ result.status \in {"ok", "error"}

\* C17 (as claimed): when UploadFile has returned, with success or with an
\* error, the file opened by getFileBlocks, the file opened by UploadFile
\* and the body of every block response are closed.
C17_EverythingClosed ==
    pc = "Done" => handles = {}

\* C18: on the blocks-needed path the name, the size and the SHA-1 of the
\* commit request are those of the negotiation request, and its file meta is
\* the file meta of the negotiation response, which every block request of
\* the call carried.
C18_CommitRepeatsNegotiation ==
    (BlocksNeeded /\ commitReq.sent) =>
        /\ commitReq.Name = negoReq.Name
        /\ commitReq.Storage.Size = negoReq.Size
        /\ commitReq.Storage.Sha1 = negoReq.Sha1
        /\ commitReq.Storage.Kss.FileMeta = resp.file_meta
        /\ \A n \in Events("blockReq") :
              log[n].info = commitReq.Storage.Kss.FileMeta

C18_Witness ==
    /\ BlocksNeeded
    /\ commitReq.sent
    /\ Count("blockReq") >= 2
    /\ commitReq.Storage.Size = 2 * ChunkSize + 1

====
